---- MODULE Spec2Model ----
(***************************************************************************)
(* A model of the digest translator (src/translate.py) and of the HTML     *)
(* builder (src/scripts/build.py).                                         *)
(*                                                                         *)
(* Four specifications share this module:                                  *)
(*   SpecPath   get_translation_path as a pure function of its arguments   *)
(*   SpecParse  parse_i18n_md as a pure function of the document text      *)
(*   SpecBuild  build.py main(): build_digest_html, generate_page, and the *)
(*              generated page's setLang script in a browser               *)
(*   Spec       translate.py main(): translate_file / translate_all over a *)
(*              file system and a translation service that may fail        *)
(***************************************************************************)
EXTENDS Naturals, Sequences, FiniteSets

VARIABLES
    \* SpecPath: the arguments and the result of get_translation_path
    original_path, lang_code, new_path, pcPath,
    \* SpecParse: the argument and the result of parse_i18n_md
    content, parsed, pcParse,
    \* SpecBuild: build.py's command line, the digest files it reads, what it
    \* writes and prints, its exit status, and the browser showing the page
    argv, digest_files, written, build_stdout, build_exit, pcBuild,
    className, active, localStorage,
    \* Spec: the call main() dispatches to, the file system, the position in
    \* translate_all and translate_file and their locals, the requests made
    \* to the translation service, what was printed and the exit status
    call, fs, unreadable, digests_dir, pc, todo, fi, file_path, lang_codes, li,
    digest_text, translated, calls, stdout, exit_status,
    \* history: the files translate_file was applied to, whether the output
    \* path existed when each entry of lang_codes was reached, and the number
    \* of failures injected so far
    applied, existed, faults

pathVars == <<original_path, lang_code, new_path, pcPath>>
parseVars == <<content, parsed, pcParse>>
buildVars == <<argv, digest_files, written, build_stdout, build_exit, pcBuild,
               className, active, localStorage>>
trVars == <<call, fs, unreadable, digests_dir, pc, todo, fi, file_path,
            lang_codes, li, digest_text, translated, calls, stdout, exit_status,
            applied, existed, faults>>
vars == <<pathVars, parseVars, buildVars, trVars>>

(***************************************************************************)
(* Bounds of the model.                                                    *)
(***************************************************************************)
\* the most '/'-separated components of a raw path string (SpecPath)
MaxComps == 4
\* the most tokens of a document text (SpecParse)
MaxDocLen == 5

(***************************************************************************)
(* Sequences.                                                              *)
(***************************************************************************)
Range(s) == {s[i] : i \in 1..Len(s)}

\* s[a..b] as Python's slice: empty when the range is
Slice(s, a, b) == IF a > b THEN <<>> ELSE SubSeq(s, a, b)

\* all sequences over S of length at most n
SeqsUpTo(S, n) == UNION {[1..k -> S] : k \in 0..n}

(***************************************************************************)
(* translate.py: the language table.                                       *)
(***************************************************************************)
\* list(LANGUAGES.keys()): the keys in insertion order
LANGUAGES == <<"zh", "es", "ja", "de", "fr">>

\* `lang in LANGUAGES`
IsLanguage(lang) == lang \in Range(LANGUAGES)

\* a code that is no key of LANGUAGES
UnknownLang == "xx"

(***************************************************************************)
(* pathlib.  A path string is modelled by its anchor ("" for a relative    *)
(* path, "/" for an absolute one) and the components between its slashes,  *)
(* which may be empty ("a//b", "a/") or "." ("./a").                       *)
(***************************************************************************)
RawPath(anchor, comps) == [anchor |-> anchor, comps |-> comps]

RECURSIVE DropEmpty(_)
\* the components pathlib keeps: empty and "." components are dropped
DropEmpty(comps) ==
    IF comps = <<>> THEN <<>>
    ELSE IF Head(comps) \in {"", "."} THEN DropEmpty(Tail(comps))
    ELSE <<Head(comps)>> \o DropEmpty(Tail(comps))

\* Path(s).parts: the anchor, when there is one, then the kept components
PathParts(raw) ==
    (IF raw.anchor = "" THEN <<>> ELSE <<raw.anchor>>) \o DropEmpty(raw.comps)

\* Path(*parts): the parts joined and parsed again
PathOfParts(parts) ==
    IF parts # <<>> /\ Head(parts) = "/"
    THEN <<"/">> \o DropEmpty(Tail(parts))
    ELSE DropEmpty(parts)

\* whether the parts hold a name after the anchor
HasName(parts) == parts # <<>> /\ parts[Len(parts)] # "/"

\* Path.name
PathName(parts) == IF HasName(parts) THEN parts[Len(parts)] ELSE ""

\* Path.parent
PathParent(parts) ==
    IF HasName(parts) THEN SubSeq(parts, 1, Len(parts) - 1) ELSE parts

\* tuple.index(x): the first position of x
IndexOf(parts, x) == CHOOSE i \in 1..Len(parts) :
    parts[i] = x /\ \A k \in 1..(i - 1) : parts[k] # x

\* the mutant of get_translation_path: the code inserted before 'digests'
get_translation_path_before(parts, lang) ==
    IF "digests" \in Range(parts)
    THEN LET idx == IndexOf(parts, "digests")
         IN  PathOfParts(Slice(parts, 1, idx - 1) \o <<lang>>
                         \o Slice(parts, idx, Len(parts)))
    ELSE PathOfParts(PathParent(parts) \o <<lang>> \o <<PathName(parts)>>)

\* get_translation_path, on the parts of Path(original_path)
get_translation_path(parts, lang) ==
    IF "digests" \in Range(parts)
    THEN LET idx == IndexOf(parts, "digests")
         IN  PathOfParts(Slice(parts, 1, idx) \o <<lang>>
                         \o Slice(parts, idx + 1, Len(parts)))
    ELSE PathOfParts(PathParent(parts) \o <<lang>> \o <<PathName(parts)>>)

(***************************************************************************)
(* build.py: the annotation stripper.  A document text is a sequence of    *)
(* tokens: a start marker "<!-- i18n:L -->" (one token per tag L), the end *)
(* marker "<!-- /i18n -->", a whitespace character, or a piece of text     *)
(* that holds no marker and no whitespace.                                 *)
(***************************************************************************)
StartZh == "<!-- i18n:zh -->"
StartFr == "<!-- i18n:fr -->"
EndMarker == "<!-- /i18n -->"
Space == " "

\* group(1) of a start marker: the \w+ after "i18n:"
MarkerLang(tok) ==
    CASE tok = StartZh -> "zh"
      [] tok = StartFr -> "fr"
      [] OTHER -> ""

IsStart(tok) == MarkerLang(tok) # ""

RECURSIVE LStrip(_)
\* str.lstrip() on tokens
LStrip(text) ==
    IF text # <<>> /\ Head(text) = Space THEN LStrip(Tail(text)) ELSE text

RECURSIVE RStrip(_)
\* str.rstrip() on tokens
RStrip(text) ==
    IF text # <<>> /\ text[Len(text)] = Space
    THEN RStrip(SubSeq(text, 1, Len(text) - 1))
    ELSE text

\* str.strip()
Strip(text) == RStrip(LStrip(text))

\* a piece of the output: text kept as it was, or the <span> that
\* collect_translation returns
Literal(tok) == [kind |-> "text", lang |-> "", text |-> <<tok>>]
SpanElement(lang, text) == [kind |-> "span", lang |-> lang, text |-> text]

\* the mutant of MatchEnd: a start marker with no end marker after it
\* matches up to the end of the text, as "(.+?)(?:<!-- /i18n -->|$)" would
MatchEndOrEof(doc, i) ==
    IF IsStart(doc[i]) /\ i < Len(doc)
    THEN IF \E j \in (i + 2)..Len(doc) : doc[j] = EndMarker
         THEN CHOOSE j \in (i + 2)..Len(doc) :
                doc[j] = EndMarker
                /\ \A k \in (i + 2)..(j - 1) : doc[k] # EndMarker
         ELSE Len(doc) + 1
    ELSE 0

\* the end of the leftmost match of I18N_PATTERN that starts at i, or 0:
\* "(.+?)" takes at least one token, up to the nearest end marker after it
MatchEnd(doc, i) ==
    IF IsStart(doc[i]) /\ \E j \in (i + 2)..Len(doc) : doc[j] = EndMarker
    THEN CHOOSE j \in (i + 2)..Len(doc) :
            doc[j] = EndMarker /\ \A k \in (i + 2)..(j - 1) : doc[k] # EndMarker
    ELSE 0

\* I18N_PATTERN.search(doc, pos): the start of the leftmost match at or
\* after pos, or 0
SearchFrom(doc, pos) ==
    IF \E i \in pos..Len(doc) : MatchEnd(doc, i) # 0
    THEN CHOOSE i \in pos..Len(doc) :
            MatchEnd(doc, i) # 0 /\ \A k \in pos..(i - 1) : MatchEnd(doc, k) = 0
    ELSE 0

\* translations[lang].append(text), the list created when lang is new
DictAppend(d, lang, text) ==
    [l \in DOMAIN d \cup {lang} |->
        IF l = lang
        THEN (IF l \in DOMAIN d THEN d[l] ELSE <<>>) \o <<text>>
        ELSE d[l]]

EmptyDict == [l \in {} |-> <<>>]

\* the mutant of collect_translation: the text taken without strip()
collect_translation_raw(acc, lang, group2) ==
    [processed |-> acc.processed \o <<SpanElement(lang, group2)>>,
     translations |-> DictAppend(acc.translations, lang, group2)]

\* collect_translation(match): the text stripped, appended to the table
\* under the tag, and the replacement element
collect_translation(acc, lang, group2) ==
    LET text == Strip(group2)
    IN  [processed |-> acc.processed \o <<SpanElement(lang, text)>>,
         translations |-> DictAppend(acc.translations, lang, text)]

RECURSIVE MapLiteral(_)
MapLiteral(toks) ==
    IF toks = <<>> THEN <<>>
    ELSE <<Literal(Head(toks))>> \o MapLiteral(Tail(toks))

RECURSIVE PatternSub(_, _, _)
\* I18N_PATTERN.sub(collect_translation, doc) from position pos on: the
\* matches are found left to right and do not overlap
PatternSub(doc, pos, acc) ==
    LET i == SearchFrom(doc, pos)
    IN  IF i = 0
        THEN [acc EXCEPT
                !.processed = @ \o MapLiteral(Slice(doc, pos, Len(doc)))]
        ELSE LET j == MatchEnd(doc, i)
                 kept == [acc EXCEPT
                            !.processed = @ \o MapLiteral(Slice(doc, pos, i - 1))]
             IN  PatternSub(doc, j + 1,
                    collect_translation(kept, MarkerLang(doc[i]),
                                        Slice(doc, i + 1, j - 1)))

\* parse_i18n_md(content): (processed, translations)
parse_i18n_md(doc) ==
    PatternSub(doc, 1, [processed |-> <<>>, translations |-> EmptyDict])

(***************************************************************************)
(* build.py: the Markdown conversion, the page and main().                 *)
(***************************************************************************)
\* a hashtag of the digest text
HashTag == "#rust"

\* md_to_html on one token of text: of its passes only "#(\w+)" matches a
\* token of the texts modelled here (none holds a heading, a link, an
\* emphasis, a list item, a rule or a labelled paragraph)
HtmlOfToken(tok) == IF tok = HashTag THEN "<span class=\"tag\">#rust</span>" ELSE tok

RECURSIVE HtmlOfText(_)
HtmlOfText(text) ==
    IF text = <<>> THEN <<>>
    ELSE <<HtmlOfToken(Head(text))>> \o HtmlOfText(Tail(text))

RECURSIVE md_to_html(_)
\* md_to_html(processed): the passes run over the whole string, the text
\* inside the <span> elements included
md_to_html(md) ==
    IF md = <<>> THEN <<>>
    ELSE <<[Head(md) EXCEPT !.text = HtmlOfText(@)]>> \o md_to_html(Tail(md))

\* strings in Python's order, for sorted()
LexOrder == <<"all", "en", "fr", "zh">>

RECURSIVE SortedFrom(_, _)
SortedFrom(S, order) ==
    IF order = <<>> THEN <<>>
    ELSE (IF Head(order) \in S THEN <<Head(order)>> ELSE <<>>)
         \o SortedFrom(S, Tail(order))

\* sorted(S) for a set of strings
Sorted(S) == SortedFrom(S, LexOrder)

\* list(translations.keys()): the keys in the order of their first span
KeysInOrder(md) ==
    LET f[i \in 0..Len(md)] ==
            IF i = 0 THEN <<>>
            ELSE IF md[i].kind = "span" /\ md[i].lang \notin Range(f[i - 1])
                 THEN Append(f[i - 1], md[i].lang)
                 ELSE f[i - 1]
    IN  f[Len(md)]

\* build_digest_html(md_path) on the text read from it
build_digest_html(text) ==
    LET p == parse_i18n_md(text)
    IN  [title |-> "HN Digest",
         html |-> md_to_html(p.processed),
         langs |-> <<"en">> \o KeysInOrder(p.processed),
         story_ids |-> <<>>,
         translations |-> p.translations]

RECURSIVE MapBuild(_)
\* [build_digest_html(f) for f in digest_files], on the texts read
MapBuild(texts) ==
    IF texts = <<>> THEN <<>>
    ELSE <<build_digest_html(Head(texts))>> \o MapBuild(Tail(texts))

\* a <button onclick="setLang('lang')" data-lang="lang">
Button(lang) == [data_lang |-> lang]

RECURSIVE MapButton(_)
MapButton(langs) ==
    IF langs = <<>> THEN <<>>
    ELSE <<Button(Head(langs))>> \o MapButton(Tail(langs))

RECURSIVE MapHtml(_)
MapHtml(digests) ==
    IF digests = <<>> THEN <<>>
    ELSE <<Head(digests).html>> \o MapHtml(Tail(digests))

\* the page generate_page(digests, output_path) writes: the buttons of the
\* language switcher (one per language of all_langs, sorted, then ALL) and
\* one <article> per digest
generate_page(digests) ==
    LET all_langs == {"en"} \cup UNION {Range(digests[i].langs) :
                                         i \in 1..Len(digests)}
    IN  [buttons |-> MapButton(Sorted(all_langs)) \o <<Button("all")>>,
         articles |-> MapHtml(digests)]

\* the languages the style sheet has a "body.show-L .i18n-L" rule for
StyledLangs == {"zh", "ja", "ko", "es", "de"}

\* whether an element of class "i18n i18n-lang" is displayed under the body
\* class: ".i18n" hides it unless one of the rules below it applies
Displayed(class, lang) ==
    \/ \E l \in StyledLangs : class = "show-" \o l /\ lang = l
    \/ class = "show-all"

\* the languages of the <span class="i18n"> elements of a page
SpanLangs(page) ==
    UNION {{page.articles[a][i].lang : i \in 1..Len(page.articles[a])} :
            a \in 1..Len(page.articles)} \ {""}

\* the first n items of a sequence: s[:n]
Take(s, n) == Slice(s, 1, IF Len(s) < n THEN Len(s) ELSE n)

\* the digest files, in the order sorted() gives them
DigestFileNames == <<"digests/2025/12/13-0600.md",
                     "digests/2025/12/14-0600-i18n.md",
                     "digests/2025/12/14-0600.md">>

\* whether glob('digests/**/*-i18n.md') matches the name
IsI18nName(f) == f = "digests/2025/12/14-0600-i18n.md"

\* md_path.with_suffix('.html')
WithSuffixHtml(f) ==
    CASE f = "digests/2025/12/13-0600.md" -> "digests/2025/12/13-0600.html"
      [] f = "digests/2025/12/14-0600-i18n.md" -> "digests/2025/12/14-0600-i18n.html"
      [] f = "digests/2025/12/14-0600.md" -> "digests/2025/12/14-0600.html"

\* the texts a digest file may hold
DigestTexts == {<<"x", HashTag>>,
                <<"x", StartZh, Space, "x", EndMarker>>,
                <<StartFr, HashTag, EndMarker, "x">>,
                <<StartZh, "x", EndMarker, StartFr, "x", EndMarker>>}

\* no file at a path
Absent == <<"<absent>">>

RECURSIVE ReverseSorted(_, _)
\* sorted(glob(...), reverse=True) over the first n names: the files that
\* exist, and whose name ends in -i18n.md when only those are asked for
ReverseSorted(n, i18nOnly) ==
    IF n = 0 THEN <<>>
    ELSE (IF /\ digest_files[DigestFileNames[n]] # Absent
             /\ (i18nOnly => IsI18nName(DigestFileNames[n]))
          THEN <<DigestFileNames[n]>> ELSE <<>>)
         \o ReverseSorted(n - 1, i18nOnly)

RECURSIVE ReadAll(_)
ReadAll(files) ==
    IF files = <<>> THEN <<>>
    ELSE <<digest_files[Head(files)]>> \o ReadAll(Tail(files))

\* the number of files the fallback glob keeps
FallbackLimit == 5

\* the files main() builds under --all
FilesToBuild ==
    LET i18n == ReverseSorted(Len(DigestFileNames), TRUE)
    IN  IF i18n # <<>> THEN i18n
        ELSE Take(ReverseSorted(Len(DigestFileNames), FALSE), FallbackLimit)

NoOutput == [path |-> "", page |-> [buttons |-> <<>>, articles |-> <<>>]]

(***************************************************************************)
(* translate.py: the file system and the translation service.              *)
(***************************************************************************)
\* the digest files of the model, as path strings relative to the working
\* directory, in the order sorted() gives their paths
DigestB == RawPath("", <<"digests", "2025", "12", "b.md">>)
DigestA == RawPath("", <<"digests", "2025", "a.md">>)
DigestZh == RawPath("", <<"digests", "2025", "zh", "a.md">>)
DigestNotes == RawPath("", <<"digests", "notes", "c.md">>)
OtherDoc == RawPath("", <<"notes", "b.md">>)

PathOrder == <<DigestB, DigestA, DigestZh, DigestNotes, OtherDoc>>
Sources == Range(PathOrder)

\* the paths of the file system: the sources and their translations
FsPaths ==
    {PathParts(f) : f \in Sources}
    \cup {get_translation_path(PathParts(f), l) :
            f \in Sources, l \in Range(LANGUAGES)}

NoFile == "<no file>"
SourceText == "digest"
OldTranslation == "old translation"
Reply == "translated"

\* Path.exists()
Exists(path) == fs[path] # NoFile

\* fnmatch of a path segment against "20*" and against "*.md"
Matches20(seg) == seg \in {"2025"}
MatchesMd(seg) == seg \in {"a.md", "b.md", "c.md"}

\* the mutant of GlobMatches: "**/*.md", every document under the root
GlobMatchesAny(parts) ==
    /\ Len(parts) >= 2
    /\ parts[1] = "digests"
    /\ MatchesMd(parts[Len(parts)])

\* whether digests_dir.glob("20*/**/*.md") yields the file
GlobMatches(parts) ==
    /\ Len(parts) >= 3
    /\ parts[1] = "digests"
    /\ Matches20(parts[2])
    /\ MatchesMd(parts[Len(parts)])

RECURSIVE SortedGlob(_)
\* sorted(digests_dir.glob("20*/**/*.md")), as path strings
SortedGlob(order) ==
    IF order = <<>> THEN <<>>
    ELSE (IF Exists(PathParts(Head(order))) /\ GlobMatches(PathParts(Head(order)))
          THEN <<Head(order)>> ELSE <<>>)
         \o SortedGlob(Tail(order))

\* any(f"/{lang}/" in str(md_file) for lang in LANGUAGES): a segment between
\* two slashes is a language code
HasLangSegment(parts) ==
    \E i \in 2..(Len(parts) - 1) : IsLanguage(parts[i])

\* a line print() writes
Msg(text, path, lang) == [text |-> text, path |-> path, lang |-> lang]

\* a request to the translation service and what came of it
Request(file, lang, reply) == [file |-> file, lang |-> lang, reply |-> reply]
Raised == "<raised>"

\* the output path of the entry of lang_codes the loop is at
out_path == get_translation_path(PathParts(file_path), lang_codes[li])

\* the mutant of ShouldSkip: the force flag read the wrong way round
ShouldSkipForced == Exists(out_path) /\ call.force

\* `out_path.exists() and not force`
ShouldSkip == Exists(out_path) /\ ~call.force

\* the most failures of the service and of the file system in one run
MaxFaults == 1
\* the most entries of a lang_codes list passed to translate_file
MaxLangs == 3
\* the number of languages, from the head of LANGUAGES, that may have
\* translations on disk before the run
MaxPre == 1

(***************************************************************************)
(* The states of the parts a specification leaves alone.                   *)
(***************************************************************************)
NoPath == <<"<none>">>
NoResult == [processed |-> <<>>, translations |-> EmptyDict]

PathIdle ==
    /\ original_path = RawPath("", <<>>)
    /\ lang_code = ""
    /\ new_path = NoPath
    /\ pcPath = "idle"

ParseIdle == content = <<>> /\ parsed = NoResult /\ pcParse = "idle"

BuildIdle ==
    /\ argv = <<>>
    /\ digest_files = [f \in Range(DigestFileNames) |-> Absent]
    /\ written = NoOutput
    /\ build_stdout = <<>>
    /\ build_exit = 0
    /\ pcBuild = "idle"
    /\ className = ""
    /\ active = {}
    /\ localStorage = ""

TranslateIdle ==
    /\ call = [fn |-> "none"]
    /\ fs = [p \in FsPaths |-> NoFile]
    /\ unreadable = {}
    /\ digests_dir = FALSE
    /\ pc = "idle"
    /\ todo = <<>>
    /\ fi = 0
    /\ file_path = RawPath("", <<>>)
    /\ lang_codes = <<>>
    /\ li = 0
    /\ digest_text = ""
    /\ translated = ""
    /\ calls = <<>>
    /\ stdout = <<>>
    /\ exit_status = 0
    /\ applied = <<>>
    /\ existed = <<>>
    /\ faults = 0

(***************************************************************************)
(* SpecPath: get_translation_path applied to every bounded path string.    *)
(***************************************************************************)
PathComps == {"digests", "2025", "a.md", "", "."}
PathLangs == Range(LANGUAGES) \cup {UnknownLang}


InitPath ==
    /\ original_path \in {RawPath(a, c) :
                            a \in {"", "/"}, c \in SeqsUpTo(PathComps, MaxComps)}
    /\ lang_code \in PathLangs
    /\ new_path = NoPath
    /\ pcPath = "call"
    /\ ParseIdle
    /\ BuildIdle
    /\ TranslateIdle

GetTranslationPath ==
    /\ pcPath = "call"
    /\ new_path' = get_translation_path(PathParts(original_path), lang_code)
    /\ pcPath' = "done"
    /\ UNCHANGED <<original_path, lang_code, parseVars, buildVars, trVars>>

NextPath == GetTranslationPath

SpecPath == InitPath /\ [][NextPath]_vars

\* C3: for a source path with a 'digests' segment the result is the source
\* path with the language code inserted as one segment right after a
\* 'digests' segment, the other segments kept in order; for a source path
\* that names a file and has no 'digests' segment the result is the file
\* name inside a directory named by the language code next to the source.
C3_TranslationPath ==
    pcPath = "done" =>
        LET parts == PathParts(original_path)
            n == Len(parts)
        IN  IF \E i \in 1..n : parts[i] = "digests"
            THEN \E i \in 1..n :
                    /\ parts[i] = "digests"
                    /\ Len(new_path) = n + 1
                    /\ new_path[i + 1] = lang_code
                    /\ \A k \in 1..i : new_path[k] = parts[k]
                    /\ \A k \in (i + 1)..n : new_path[k + 1] = parts[k]
            ELSE HasName(parts) =>
                    /\ Len(new_path) = n + 1
                    /\ new_path[n + 1] = parts[n]
                    /\ new_path[n] = lang_code
                    /\ \A k \in 1..(n - 1) : new_path[k] = parts[k]

\* C3 witness: an absolute path with two 'digests' segments and a file name
\* has been mapped.
C3_Witness ==
    /\ pcPath = "done"
    /\ original_path = RawPath("/", <<"digests", "", "digests", "a.md">>)
    /\ lang_code = "zh"
    /\ new_path = <<"/", "digests", "zh", "digests", "a.md">>

(***************************************************************************)
(* SpecParse: parse_i18n_md applied to every bounded document text.        *)
(***************************************************************************)
DocTokens == {StartZh, StartFr, EndMarker, Space, "x"}

InitParse ==
    /\ content \in SeqsUpTo(DocTokens, MaxDocLen)
    /\ parsed = NoResult
    /\ pcParse = "call"
    /\ PathIdle
    /\ BuildIdle
    /\ TranslateIdle

ParseI18nMd ==
    /\ pcParse = "call"
    /\ parsed' = parse_i18n_md(content)
    /\ pcParse' = "done"
    /\ UNCHANGED <<content, pathVars, buildVars, trVars>>

NextParse == ParseI18nMd

SpecParse == InitParse /\ [][NextParse]_vars

\* the table's list under a tag, empty when the tag is no key
Entries(d, lang) == IF lang \in DOMAIN d THEN d[lang] ELSE <<>>

\* the end marker that closes the span opened at i: the nearest one that
\* leaves at least one token of enclosed text; 0 when there is none
ClosingEnd(doc, i) ==
    LET ends == {j \in (i + 2)..Len(doc) : doc[j] = EndMarker}
    IN  IF ends = {} THEN 0
        ELSE CHOOSE j \in ends : \A k \in ends : j <= k

\* the positions where an annotation span starts: a start marker that has a
\* closing end marker and lies in no span that started before it
SpanStarts(doc) ==
    LET f[i \in 0..Len(doc)] ==
            IF i = 0 THEN {}
            ELSE IF /\ IsStart(doc[i])
                    /\ ClosingEnd(doc, i) # 0
                    /\ \A a \in f[i - 1] : ClosingEnd(doc, a) < i
                 THEN f[i - 1] \cup {i}
                 ELSE f[i - 1]
    IN  f[Len(doc)]

\* the enclosed text of the span that starts at i, stripped or as written
Enclosed(doc, i, stripped) ==
    LET raw == Slice(doc, i + 1, ClosingEnd(doc, i) - 1)
    IN  IF stripped THEN Strip(raw) ELSE raw

RECURSIVE ExpectedProcessed(_, _, _)
\* what the claim says of the output from position p on
ExpectedProcessed(doc, p, stripped) ==
    IF p > Len(doc) THEN <<>>
    ELSE LET S == SpanStarts(doc)
             here == IF p \in S
                     THEN <<SpanElement(MarkerLang(doc[p]),
                                        Enclosed(doc, p, stripped))>>
                     ELSE IF \E a \in S : a < p /\ p <= ClosingEnd(doc, a)
                     THEN <<>>
                     ELSE <<Literal(doc[p])>>
         IN  here \o ExpectedProcessed(doc, p + 1, stripped)

RECURSIVE ExpectedEntries(_, _, _, _)
\* what the claim says of the table's list under lang, from position p on
ExpectedEntries(doc, lang, p, stripped) ==
    IF p > Len(doc) THEN <<>>
    ELSE (IF p \in SpanStarts(doc) /\ MarkerLang(doc[p]) = lang
          THEN <<Enclosed(doc, p, stripped)>> ELSE <<>>)
         \o ExpectedEntries(doc, lang, p + 1, stripped)

TagsOf(doc) == {MarkerLang(doc[i]) : i \in SpanStarts(doc)}

EndFollows(doc, i) == \E j \in (i + 1)..Len(doc) : doc[j] = EndMarker

\* whether the start marker at i has an end marker of its own: the nearest
\* marker after it is an end marker
HasOwnEnd(doc, i) ==
    \E j \in (i + 1)..Len(doc) :
        /\ doc[j] = EndMarker
        /\ \A k \in (i + 1)..(j - 1) : ~IsStart(doc[k])

\* C8 as amended: a start marker with no end marker anywhere after it is
\* left in the output as literal text, with all the text after it, and adds
\* nothing to the table: the output is the output for the text before it
\* followed by the rest of the text as written, and the table is the table
\* for the text before it.
C8_NoEndAfterIsLiteral ==
    pcParse = "done" =>
        \A i \in 1..Len(content) :
            (IsStart(content[i]) /\ ~EndFollows(content, i)) =>
                LET before == parse_i18n_md(Slice(content, 1, i - 1))
                IN  /\ parsed.processed = before.processed
                          \o MapLiteral(Slice(content, i, Len(content)))
                    /\ parsed.translations = before.translations

\* C8 as claimed: a start marker with no end marker of its own is left as
\* literal text and adds nothing to the table, also when a complete span
\* follows it: the output is the output for the text before it, the marker
\* as written, and the output for the text after it, and the table holds
\* the entries of those two texts.
C8_UnmatchedStartIsLiteral ==
    pcParse = "done" =>
        \A i \in 1..Len(content) :
            (IsStart(content[i]) /\ ~HasOwnEnd(content, i)) =>
                LET before == parse_i18n_md(Slice(content, 1, i - 1))
                    after == parse_i18n_md(Slice(content, i + 1, Len(content)))
                IN  /\ parsed.processed = before.processed
                          \o <<Literal(content[i])>> \o after.processed
                    /\ \A lang \in {"zh", "fr"} :
                          Entries(parsed.translations, lang)
                              = Entries(before.translations, lang)
                                  \o Entries(after.translations, lang)

\* C8 witness: a document with a complete span and, after it, a start marker
\* that no end marker follows has been parsed.
C8_Witness ==
    /\ pcParse = "done"
    /\ content = <<StartZh, "x", EndMarker, StartFr, "x">>
    /\ parsed.processed = <<SpanElement("zh", <<"x">>),
                            Literal(StartFr), Literal("x")>>
    /\ DOMAIN parsed.translations = {"zh"}

(***************************************************************************)
(* SpecBuild: build.py main() over the digest files, then the page it      *)
(* wrote opened in a browser.                                              *)
(***************************************************************************)
\* a line main() prints
Line(text, n, path) == [text |-> text, n |-> n, path |-> path]

InitBuild ==
    /\ argv \in {<<>>, <<"--all">>}
                \cup {<<f>> : f \in Range(DigestFileNames)}
                \cup {<<f, "out.html">> : f \in Range(DigestFileNames)}
    /\ digest_files \in [Range(DigestFileNames) -> DigestTexts \cup {Absent}]
    /\ written = NoOutput
    /\ build_stdout = <<>>
    /\ build_exit = 0
    /\ pcBuild = "main"
    /\ className = ""
    /\ active = {}
    /\ localStorage = ""
    /\ PathIdle
    /\ ParseIdle
    /\ TranslateIdle

\* main() with no argument: the usage, and sys.exit(1)
MainUsage ==
    /\ pcBuild = "main"
    /\ Len(argv) < 1
    /\ build_stdout' = <<Line("Usage: build.py <digest.md> [output.html]", 0, ""),
                         Line("       build.py --all  # build all digests", 0, "")>>
    /\ build_exit' = 1
    /\ pcBuild' = "exited"
    /\ UNCHANGED <<argv, digest_files, written, className, active, localStorage,
                   pathVars, parseVars, trVars>>

\* main() with --all: every digest file found is built into index.html
MainAll ==
    /\ pcBuild = "main"
    /\ Len(argv) >= 1 /\ argv[1] = "--all"
    /\ LET digests == MapBuild(ReadAll(FilesToBuild))
       IN  /\ written' = [path |-> "index.html", page |-> generate_page(digests)]
           /\ build_stdout' = <<Line("Built {n} digests -> {output}",
                                     Len(digests), "index.html")>>
    /\ pcBuild' = "built"
    /\ UNCHANGED <<argv, digest_files, build_exit, className, active,
                   localStorage, pathVars, parseVars, trVars>>

\* main() with a digest file: the file is built into the output path; a file
\* that cannot be read ends the run with the exception read_text() raises
MainSingle ==
    /\ pcBuild = "main"
    /\ Len(argv) >= 1 /\ argv[1] # "--all"
    /\ LET md_path == argv[1]
           output == IF Len(argv) > 1 THEN argv[2] ELSE WithSuffixHtml(md_path)
       IN  IF digest_files[md_path] = Absent
           THEN /\ build_exit' = 1
                /\ pcBuild' = "exited"
                /\ UNCHANGED <<written, build_stdout>>
           ELSE /\ written' = [path |-> output,
                               page |-> generate_page(
                                   <<build_digest_html(digest_files[md_path])>>)]
                /\ build_stdout' = <<Line("Built {md_path} -> {output}", 1, output)>>
                /\ pcBuild' = "built"
                /\ UNCHANGED build_exit
    /\ UNCHANGED <<argv, digest_files, className, active, localStorage,
                   pathVars, parseVars, trVars>>

\* the page's setLang(lang)
setLang(lang) ==
    /\ className' = (IF lang = "en" THEN "" ELSE "show-" \o lang)
    /\ active' = {b \in Range(written.page.buttons) : b.data_lang = lang}
    /\ localStorage' = lang

\* the page is opened: its script calls setLang with the stored mode, or 'en'
Visit ==
    /\ pcBuild = "built"
    /\ setLang(IF localStorage = "" THEN "en" ELSE localStorage)
    /\ pcBuild' = "open"
    /\ UNCHANGED <<argv, digest_files, written, build_stdout, build_exit,
                   pathVars, parseVars, trVars>>

\* a button of the language switcher is clicked
Click ==
    /\ pcBuild = "open"
    /\ \E b \in Range(written.page.buttons) : setLang(b.data_lang)
    /\ UNCHANGED <<argv, digest_files, written, build_stdout, build_exit, pcBuild,
                   pathVars, parseVars, trVars>>

\* the page is closed: the document goes, the stored mode stays
Leave ==
    /\ pcBuild = "open"
    /\ className' = ""
    /\ active' = {}
    /\ pcBuild' = "built"
    /\ UNCHANGED <<argv, digest_files, written, build_stdout, build_exit,
                   localStorage, pathVars, parseVars, trVars>>

NextBuild == MainUsage \/ MainAll \/ MainSingle \/ Visit \/ Click \/ Leave

SpecBuild == InitBuild /\ [][NextBuild]_vars

\* the languages of the page's spans that are displayed
Revealed == {l \in SpanLangs(written.page) : Displayed(className, l)}

\* C9: every language observed in the page's documents has one toggle
\* control; with the page open, when the last selected mode is such a
\* language its spans are revealed and no others, when it is 'all' every
\* language-tagged span is revealed, when it is the default none is; a visit
\* restores the stored mode.
C9_ToggleRevealsLanguage ==
    pcBuild = "open" =>
        /\ \A l \in SpanLangs(written.page) :
             /\ Cardinality({i \in 1..Len(written.page.buttons) :
                               written.page.buttons[i].data_lang = l}) = 1
             /\ localStorage = l => Revealed = {l}
        /\ localStorage = "all" => Revealed = SpanLangs(written.page)
        /\ localStorage = "en" => Revealed = {}

\* C6: a run of --all that finds no digest file reports an error, ends with
\* a nonzero exit status and writes no output file.
C6_EmptyBulkBuildFails ==
    (/\ pcBuild # "main"
     /\ argv = <<"--all">>
     /\ \A f \in Range(DigestFileNames) : digest_files[f] = Absent)
    => /\ build_exit # 0
       /\ written = NoOutput
       /\ \E i \in 1..Len(build_stdout) :
             build_stdout[i].text # "Built {n} digests -> {output}"

(***************************************************************************)
(* Spec: translate.py.  main() dispatches to translate_all(force) or to    *)
(* translate_file(file, lang_codes, force); each pass of the loop over     *)
(* lang_codes, each request to the service and each write is a step.       *)
(***************************************************************************)
\* lang_codes=None
NoneCodes == <<"<None>">>

Call(fn, file, codes, force) ==
    [fn |-> fn, file |-> file, codes |-> codes, force |-> force]

\* the sources of the model that are under the digests directory
UnderDigests == {f \in Sources : PathParts(f)[1] = "digests"}

otherVars == <<pathVars, parseVars, buildVars>>
envVars == <<call, unreadable, digests_dir>>

Init ==
    /\ call \in {Call("translate_all", RawPath("", <<>>), NoneCodes, force) :
                    force \in BOOLEAN}
                \cup {Call("translate_file", f, codes, force) :
                        f \in {DigestA, OtherDoc},
                        codes \in {NoneCodes}
                                  \cup SeqsUpTo({"zh", "es", UnknownLang}, MaxLangs),
                        force \in BOOLEAN}
    /\ \E present \in SUBSET Sources,
          pre \in SUBSET Range(SubSeq(LANGUAGES, 1, MaxPre)) :
          /\ IF call.fn = "translate_all"
             THEN present \subseteq UnderDigests
             ELSE present \subseteq {call.file}
          /\ unreadable \in {u \in SUBSET {PathParts(f) : f \in present} :
                                Cardinality(u) <= 1}
          /\ digests_dir \in {d \in BOOLEAN :
                                /\ present \cap UnderDigests # {} => d
                                /\ call.fn = "translate_file" =>
                                       (d <=> present \cap UnderDigests # {})}
          /\ fs = [p \in FsPaths |->
                    IF \E f \in present : p = PathParts(f) THEN SourceText
                    ELSE IF \E f \in present, l \in pre :
                            p = get_translation_path(PathParts(f), l)
                         THEN OldTranslation
                         ELSE NoFile]
    /\ pc = "main"
    /\ todo = <<>>
    /\ fi = 0
    /\ file_path = RawPath("", <<>>)
    /\ lang_codes = <<>>
    /\ li = 0
    /\ digest_text = ""
    /\ translated = ""
    /\ calls = <<>>
    /\ stdout = <<>>
    /\ exit_status = 0
    /\ applied = <<>>
    /\ existed = <<>>
    /\ faults = 0
    /\ PathIdle
    /\ ParseIdle
    /\ BuildIdle

\* translate_file(f, codes, force) up to its loop: the default list, the
\* "File not found" return, and read_text(), whose exception nothing catches
translate_file(f, codes) ==
    /\ file_path' = f
    /\ lang_codes' = (IF codes = NoneCodes THEN LANGUAGES ELSE codes)
    /\ li' = 1
    /\ applied' = Append(applied, f)
    /\ existed' = <<>>
    /\ IF ~Exists(PathParts(f))
       THEN /\ stdout' = Append(stdout, Msg("File not found: {file_path}",
                                            PathParts(f), ""))
            /\ pc' = "file_return"
            /\ UNCHANGED <<digest_text, exit_status>>
       ELSE IF PathParts(f) \in unreadable
       THEN /\ exit_status' = 1
            /\ pc' = "exited"
            /\ UNCHANGED <<digest_text, stdout>>
       ELSE /\ digest_text' = fs[PathParts(f)]
            /\ pc' = "lang_loop"
            /\ UNCHANGED <<stdout, exit_status>>

\* main(): args.file given
MainTranslateFile ==
    /\ pc = "main"
    /\ call.fn = "translate_file"
    /\ translate_file(call.file, call.codes)
    /\ UNCHANGED <<envVars, fs, todo, fi, translated, calls, faults, otherVars>>

\* main(): --all, translate_all up to its loop
MainTranslateAll ==
    /\ pc = "main"
    /\ call.fn = "translate_all"
    /\ IF ~digests_dir
       THEN /\ stdout' = Append(stdout, Msg("No digests directory found", <<>>, ""))
            /\ pc' = "exited"
            /\ UNCHANGED <<todo, fi>>
       ELSE /\ todo' = SortedGlob(PathOrder)
            /\ fi' = 1
            /\ pc' = "all_loop"
            /\ UNCHANGED stdout
    /\ UNCHANGED <<envVars, fs, file_path, lang_codes, li, digest_text, translated,
                   calls, exit_status, applied, existed, faults, otherVars>>

\* translate_all's loop: a file whose path holds a language code is skipped
AllSkip ==
    /\ pc = "all_loop"
    /\ fi <= Len(todo)
    /\ HasLangSegment(PathParts(todo[fi]))
    /\ fi' = fi + 1
    /\ UNCHANGED <<envVars, fs, pc, todo, file_path, lang_codes, li, digest_text,
                   translated, calls, stdout, exit_status, applied, existed,
                   faults, otherVars>>

\* translate_all's loop: translate_file(str(md_file), force=force)
AllTranslateFile ==
    /\ pc = "all_loop"
    /\ fi <= Len(todo)
    /\ ~HasLangSegment(PathParts(todo[fi]))
    /\ translate_file(todo[fi], NoneCodes)
    /\ UNCHANGED <<envVars, fs, todo, fi, translated, calls, faults, otherVars>>

\* translate_all's loop is over: main() returns
AllDone ==
    /\ pc = "all_loop"
    /\ fi > Len(todo)
    /\ pc' = "exited"
    /\ UNCHANGED <<envVars, fs, todo, fi, file_path, lang_codes, li, digest_text,
                   translated, calls, stdout, exit_status, applied, existed,
                   faults, otherVars>>

\* the loop over lang_codes: a code that is no key of LANGUAGES
LangUnknown ==
    /\ pc = "lang_loop"
    /\ li <= Len(lang_codes)
    /\ ~IsLanguage(lang_codes[li])
    /\ stdout' = Append(stdout, Msg("Unknown language: {lang}", <<>>, lang_codes[li]))
    /\ existed' = Append(existed, FALSE)
    /\ li' = li + 1
    /\ UNCHANGED <<envVars, fs, pc, todo, fi, file_path, lang_codes, digest_text,
                   translated, calls, exit_status, applied, faults, otherVars>>

\* the loop over lang_codes: the output exists and force is not set
LangSkip ==
    /\ pc = "lang_loop"
    /\ li <= Len(lang_codes)
    /\ IsLanguage(lang_codes[li])
    /\ ShouldSkip
    /\ stdout' = Append(stdout, Msg("[skip] {out_path} exists", out_path, ""))
    /\ existed' = Append(existed, TRUE)
    /\ li' = li + 1
    /\ UNCHANGED <<envVars, fs, pc, todo, fi, file_path, lang_codes, digest_text,
                   translated, calls, exit_status, applied, faults, otherVars>>

\* the loop over lang_codes: the language is to be translated
LangTranslate ==
    /\ pc = "lang_loop"
    /\ li <= Len(lang_codes)
    /\ IsLanguage(lang_codes[li])
    /\ ~ShouldSkip
    /\ stdout' = Append(stdout, Msg("[translate] {path.name} -> {lang}",
                                    <<PathName(PathParts(file_path))>>,
                                    lang_codes[li]))
    /\ existed' = Append(existed, Exists(out_path))
    /\ pc' = "call"
    /\ UNCHANGED <<envVars, fs, todo, fi, file_path, lang_codes, li, digest_text,
                   translated, calls, exit_status, applied, faults, otherVars>>

\* translate_digest(content, lang) returns the service's text
TranslateDigestReturns ==
    /\ pc = "call"
    /\ calls' = Append(calls, Request(file_path, lang_codes[li], Reply))
    /\ translated' = Reply
    /\ pc' = "write"
    /\ UNCHANGED <<envVars, fs, todo, fi, file_path, lang_codes, li, digest_text,
                   stdout, exit_status, applied, existed, faults, otherVars>>

\* the mutant of TranslateDigestRaises: the failure ends the loop
TranslateDigestRaisesBreak ==
    /\ pc = "call"
    /\ faults < MaxFaults
    /\ faults' = faults + 1
    /\ calls' = Append(calls, Request(file_path, lang_codes[li], Raised))
    /\ stdout' = Append(stdout, Msg("[error] {lang}: {e}", <<>>, lang_codes[li]))
    /\ li' = Len(lang_codes) + 1
    /\ pc' = "lang_loop"
    /\ UNCHANGED <<envVars, fs, todo, fi, file_path, lang_codes, digest_text,
                   translated, exit_status, applied, existed, otherVars>>

\* translate_digest(content, lang) raises: caught, printed, the loop goes on
TranslateDigestRaises ==
    /\ pc = "call"
    /\ faults < MaxFaults
    /\ faults' = faults + 1
    /\ calls' = Append(calls, Request(file_path, lang_codes[li], Raised))
    /\ stdout' = Append(stdout, Msg("[error] {lang}: {e}", <<>>, lang_codes[li]))
    /\ li' = li + 1
    /\ pc' = "lang_loop"
    /\ UNCHANGED <<envVars, fs, todo, fi, file_path, lang_codes, digest_text,
                   translated, exit_status, applied, existed, otherVars>>

\* the mutant of WriteText: the source text written, not the translation
WriteTextOfSource ==
    /\ pc = "write"
    /\ fs' = [fs EXCEPT ![out_path] = digest_text]
    /\ stdout' = Append(stdout, Msg("[done] {out_path}", out_path, ""))
    /\ li' = li + 1
    /\ pc' = "lang_loop"
    /\ UNCHANGED <<envVars, todo, fi, file_path, lang_codes, digest_text,
                   translated, calls, exit_status, applied, existed, faults,
                   otherVars>>

\* mkdir() and write_text(translated) succeed
WriteText ==
    /\ pc = "write"
    /\ fs' = [fs EXCEPT ![out_path] = translated]
    /\ stdout' = Append(stdout, Msg("[done] {out_path}", out_path, ""))
    /\ li' = li + 1
    /\ pc' = "lang_loop"
    /\ UNCHANGED <<envVars, todo, fi, file_path, lang_codes, digest_text,
                   translated, calls, exit_status, applied, existed, faults,
                   otherVars>>

\* mkdir() raises, or write_text() raises before the file is opened: caught,
\* printed, the loop goes on
WriteRaises ==
    /\ pc = "write"
    /\ faults < MaxFaults
    /\ faults' = faults + 1
    /\ stdout' = Append(stdout, Msg("[error] {lang}: {e}", <<>>, lang_codes[li]))
    /\ li' = li + 1
    /\ pc' = "lang_loop"
    /\ UNCHANGED <<envVars, fs, todo, fi, file_path, lang_codes, digest_text,
                   translated, calls, exit_status, applied, existed, otherVars>>

\* write_text() raises after open(mode='w') has created or emptied the file
\* (the text cannot be encoded, the disk is full): caught, printed, the loop
\* goes on
WriteTruncates ==
    /\ pc = "write"
    /\ faults < MaxFaults
    /\ faults' = faults + 1
    /\ fs' = [fs EXCEPT ![out_path] = ""]
    /\ stdout' = Append(stdout, Msg("[error] {lang}: {e}", <<>>, lang_codes[li]))
    /\ li' = li + 1
    /\ pc' = "lang_loop"
    /\ UNCHANGED <<envVars, todo, fi, file_path, lang_codes, digest_text,
                   translated, calls, exit_status, applied, existed, otherVars>>

\* the loop over lang_codes is over
LangDone ==
    /\ pc = "lang_loop"
    /\ li > Len(lang_codes)
    /\ pc' = "file_return"
    /\ UNCHANGED <<envVars, fs, todo, fi, file_path, lang_codes, li, digest_text,
                   translated, calls, stdout, exit_status, applied, existed,
                   faults, otherVars>>

\* translate_file returns, to translate_all's loop or to main()
FileReturn ==
    /\ pc = "file_return"
    /\ IF call.fn = "translate_all"
       THEN fi' = fi + 1 /\ pc' = "all_loop"
       ELSE pc' = "exited" /\ UNCHANGED fi
    /\ UNCHANGED <<envVars, fs, todo, file_path, lang_codes, li, digest_text,
                   translated, calls, stdout, exit_status, applied, existed,
                   faults, otherVars>>

Next ==
    \/ MainTranslateFile
    \/ MainTranslateAll
    \/ AllSkip
    \/ AllTranslateFile
    \/ AllDone
    \/ LangUnknown
    \/ LangSkip
    \/ LangTranslate
    \/ TranslateDigestReturns
    \/ TranslateDigestRaises
    \/ WriteText
    \/ WriteRaises
    \/ WriteTruncates
    \/ LangDone
    \/ FileReturn

Spec == Init /\ [][Next]_vars

\* the last line printed
LastLine == stdout[Len(stdout)]

\* the languages requested of the service for a file, in the order of the
\* requests
CalledLangs(f) ==
    LET g[k \in 0..Len(calls)] ==
            IF k = 0 THEN <<>>
            ELSE IF calls[k].file = f THEN Append(g[k - 1], calls[k].lang)
            ELSE g[k - 1]
    IN  g[Len(calls)]

\* the entries of lang_codes that are supported and whose output path did
\* not exist when they were reached, or any supported entry under force
DueLangs ==
    LET g[i \in 0..Len(lang_codes)] ==
            IF i = 0 THEN <<>>
            ELSE IF /\ IsLanguage(lang_codes[i])
                    /\ (~existed[i] \/ call.force)
                 THEN Append(g[i - 1], lang_codes[i])
                 ELSE g[i - 1]
    IN  g[Len(lang_codes)]

\* C1: when translate_file, having read the source, leaves its loop, every
\* entry of lang_codes has been reached, and the service was asked once for
\* each supported entry whose output path did not exist when it was reached
\* (or, under force, for each supported entry), in the list's order,
\* whatever the entries before it were and whatever came of their requests.
C1_EverySupportedLanguageAttempted ==
    (pc = "file_return" /\ Exists(PathParts(file_path))) =>
        /\ Len(existed) = Len(lang_codes)
        /\ CalledLangs(file_path) = DueLangs

\* C1 witness: translate_file has left its loop over a list with an unknown
\* code first, after the request for the next entry failed and the request
\* for the entry after that was made.
C1_Witness ==
    /\ pc = "file_return"
    /\ Len(lang_codes) >= 3
    /\ ~IsLanguage(lang_codes[1])
    /\ Len(calls) = 2
    /\ calls[1].reply = Raised
    /\ calls[1].lang # calls[2].lang
    /\ calls[2].reply = Reply

\* C2: a step of the loop taken at a supported entry whose output path
\* exists, force not set, makes no request to the service, leaves every file
\* as it is and moves on to the next entry.
C2_ExistingOutputSkipped ==
    [][(/\ pc = "lang_loop"
        /\ li <= Len(lang_codes)
        /\ IsLanguage(lang_codes[li])
        /\ Exists(out_path)
        /\ ~call.force)
       => (/\ calls' = calls
           /\ fs' = fs
           /\ pc' = "lang_loop"
           /\ li' = li + 1)]_vars

\* C2 witness: an entry was skipped after a translation had been written by
\* this run, and the skipped output still holds what it held.
C2_Witness ==
    /\ pc = "lang_loop"
    /\ Len(stdout) >= 3
    /\ LastLine.text = "[skip] {out_path} exists"
    /\ fs[LastLine.path] \in {OldTranslation, Reply}
    /\ \E k \in 1..Len(calls) : calls[k].reply = Reply

\* whether the step is a request to the service that fails
ServiceFails ==
    /\ pc = "call"
    /\ Len(calls') = Len(calls) + 1
    /\ calls'[Len(calls')].reply = Raised

\* whether the last request was for the entry the loop is at, and returned
ServiceReturned ==
    /\ calls # <<>>
    /\ calls[Len(calls)] = Request(file_path, lang_codes[li], Reply)

\* C10 as claimed: a failing request leaves every file as it is; a file's
\* content changes only at the output path of the entry the loop is at, after
\* the request for that entry has returned, and is then the returned text.
C10_OutputIsReturnedText ==
    [][/\ ServiceFails => fs' = fs
       /\ \A p \in FsPaths :
            fs'[p] # fs[p] =>
                /\ pc = "write"
                /\ p = out_path
                /\ ServiceReturned
                /\ fs'[p] = calls[Len(calls)].reply]_vars

\* C10 as amended: a failing request leaves every file as it is; a file's
\* content changes only at the output path of the entry the loop is at, after
\* the request for that entry has returned; it is then the returned text when
\* the write succeeds, and the empty file that open() left when write_text
\* fails, which is printed as an error.
C10_OutputChangesAfterReturn ==
    [][/\ ServiceFails => fs' = fs
       /\ \A p \in FsPaths :
            fs'[p] # fs[p] =>
                /\ pc = "write"
                /\ p = out_path
                /\ ServiceReturned
                /\ \/ /\ fs'[p] = calls[Len(calls)].reply
                      /\ stdout'[Len(stdout')].text = "[done] {out_path}"
                   \/ /\ fs'[p] = ""
                      /\ stdout'[Len(stdout')].text = "[error] {lang}: {e}"]_vars

\* C10 witness: under force, the request for a language with a translation
\* on disk failed and the old translation is still there, and the
\* translation of another language has been written.
C10_Witness ==
    /\ call.force
    /\ \E k \in 1..Len(calls) :
          /\ calls[k].reply = Raised
          /\ calls[k].file = file_path
          /\ fs[get_translation_path(PathParts(file_path), calls[k].lang)]
                = OldTranslation
    /\ \E p \in FsPaths : fs[p] = Reply

\* the files translate_all's glob yields whose path holds no language code
Discovered == SelectSeq(todo, LAMBDA f : ~HasLangSegment(PathParts(f)))

\* C4: when a bulk run has ended, every discovered source file has been
\* processed by translate_file, an unreadable one having been skipped.
C4_UnreadableSourceIsSkipped ==
    (pc = "exited" /\ call.fn = "translate_all") =>
        \A i \in 1..Len(Discovered) : Discovered[i] \in Range(applied)

\* the documents under the digests root
Documents ==
    {f \in Sources :
        /\ Exists(PathParts(f))
        /\ PathParts(f)[1] = "digests"
        /\ MatchesMd(PathParts(f)[Len(PathParts(f))])}

\* whether a segment of the path after the root is a language code
InLanguageDir(f) ==
    \E i \in 2..Len(PathParts(f)) : PathParts(f)[i] \in Range(LANGUAGES)

\* whether the document lies under a first-level directory named 20*
InYearDir(f) == Len(PathParts(f)) >= 3 /\ Matches20(PathParts(f)[2])

\* C5 as claimed: a bulk run that ends normally has applied translate_file
\* to exactly the documents under the digests root whose path holds no
\* language code.
C5_AllDocumentsProcessed ==
    (pc = "exited" /\ call.fn = "translate_all" /\ exit_status = 0) =>
        Range(applied) = {f \in Documents : ~InLanguageDir(f)}

\* the documents the amended claim names, in sorted order
YearDigests ==
    SelectSeq(PathOrder,
              LAMBDA f : f \in Documents /\ InYearDir(f) /\ ~InLanguageDir(f))

\* C5 as amended: a bulk run applies translate_file, in sorted order, to the
\* documents under a first-level directory 20* of the digests root whose path
\* holds no language code, and to nothing else; when it has ended it has
\* processed all of them, or all up to and including the first whose source
\* could not be read, where the run ended with status 1.
C5_YearDigestsProcessed ==
    (pc = "exited" /\ call.fn = "translate_all") =>
        \E k \in 0..Len(YearDigests) :
            /\ applied = SubSeq(YearDigests, 1, k)
            /\ exit_status = 0 => k = Len(YearDigests)
            /\ exit_status # 0 => k > 0 /\ PathParts(YearDigests[k]) \in unreadable

\* C5 witness: a bulk run has ended normally having processed two documents
\* and left alone one in a language directory and one outside the 20*
\* directories.
C5_Witness ==
    /\ pc = "exited"
    /\ call.fn = "translate_all"
    /\ exit_status = 0
    /\ Len(applied) = 2
    /\ Exists(PathParts(DigestZh))
    /\ Exists(PathParts(DigestNotes))

====
